---- MODULE Spec2Model ----
(***************************************************************************)
(* Gallery administration of palesaurio/LIC.JULIA.                         *)
(*                                                                         *)
(*   src/lib/gallery-store.ts            the storage adapter (localStorage) *)
(*   src/components/gallery-manager.tsx  the gallery editor (React state)   *)
(*   src/components/edit-gallery-item.tsx the item editor dialog            *)
(*                                                                         *)
(* A GalleryItem is a record whose optional fields (alt, order, featured)  *)
(* are fields that may be missing from its DOMAIN, as in the JS object.    *)
(* A JS array is a sequence; the code's 0-based index i is position i + 1. *)
(***************************************************************************)
EXTENDS Integers, Sequences, FiniteSets, TLC

\* ------------------------------------------------------------------ bounds
MaxSteps == 6        \* user inputs (clicks, keystrokes, files picked) handled
MaxCalls == 5        \* direct calls of gallery-store's functions
MaxInputs == 5       \* user inputs handled where the awaited image steps
                     \* are required to settle

\* --------------------------------------------------------------- constants
GalleryTypes == {"hero", "eventos", "actividades", "propuestas-accion"}

PlaceholderHero == "/placeholder.svg?height=600&width=800"
Placeholder == "/placeholder.svg?height=400&width=600"
BlobUrl == "blob:http://localhost/1"
DataUrl == "data:image/jpeg;base64,AAAA"

INITIAL_GALLERIES ==
  [g \in GalleryTypes |->
     CASE g = "hero" ->
            << [id |-> 1, imageUrl |-> PlaceholderHero,
                title |-> "Julia Villagomez en campana",
                description |-> "Trabajando por un mejor futuro para nuestra comunidad",
                alt |-> "Julia Villagomez en campana", order |-> 0],
               [id |-> 2, imageUrl |-> PlaceholderHero,
                title |-> "Reunion con la comunidad",
                description |-> "Escuchando las necesidades de los ciudadanos",
                alt |-> "Reunion con la comunidad", order |-> 1],
               [id |-> 3, imageUrl |-> PlaceholderHero,
                title |-> "Propuestas para el futuro",
                description |-> "Presentando nuestras propuestas para el desarrollo",
                alt |-> "Propuestas para el futuro", order |-> 2] >>
       [] g = "eventos" ->
            << [id |-> 1, imageUrl |-> Placeholder,
                title |-> "Visita a la comunidad",
                description |-> "Reunion con lideres comunitarios para discutir necesidades locales.",
                order |-> 0],
               [id |-> 2, imageUrl |-> Placeholder,
                title |-> "Evento comunitario",
                description |-> "Participacion en evento comunitario local.",
                order |-> 1] >>
       [] g = "actividades" ->
            << [id |-> 1, imageUrl |-> Placeholder,
                title |-> "Foro politico",
                description |-> "Participacion en foro sobre politicas publicas.",
                order |-> 0],
               [id |-> 2, imageUrl |-> Placeholder,
                title |-> "Reunion de trabajo",
                description |-> "Reunion con equipo de trabajo para planificar estrategias.",
                order |-> 1] >>
       [] OTHER ->
            << [id |-> 1, imageUrl |-> Placeholder,
                title |-> "Proyecto de salud",
                description |-> "Inauguracion de nueva clinica comunitaria para mejorar servicios de salud.",
                order |-> 0],
               [id |-> 2, imageUrl |-> Placeholder,
                title |-> "Programa educativo",
                description |-> "Lanzamiento de programa educativo para jovenes.",
                order |-> 1] >>]

\* The gallery the editor is mounted for (its galleryId prop).
galleryId == "eventos"

\* Date.now() when the page loads; every later reading is Epoch + ticks.
Epoch == 1000

\* --------------------------------------------------------------- JS values
\* item.f !== undefined
Has(item, f) == f \in DOMAIN item

\* { ...item, [f]: v }
Put(item, f, v) == [k \in (DOMAIN item) \cup {f} |-> IF k = f THEN v ELSE item[k]]

\* (item.order || 0)
OrderOrZero(item) == IF Has(item, "order") THEN item.order ELSE 0

\* featured: true in place of the negation
FeaturedOn(item) == TRUE

\* !item.featured
NotFeatured(item) == IF Has(item, "featured") THEN ~item.featured ELSE TRUE

\* url.startsWith("blob:")
StartsWithBlob(url) == url = BlobUrl

\* Array.prototype.sort with the comparator of getGalleryItems: stable,
\* ascending by (order || 0).
RECURSIVE InsertByOrder(_, _)
InsertByOrder(sorted, item) ==
  IF sorted = << >> THEN << item >>
  ELSE IF OrderOrZero(Head(sorted)) <= OrderOrZero(item)
       THEN << Head(sorted) >> \o InsertByOrder(Tail(sorted), item)
       ELSE << item >> \o sorted

RECURSIVE SortByOrder(_)
SortByOrder(s) ==
  IF s = << >> THEN << >>
  ELSE InsertByOrder(SortByOrder(SubSeq(s, 1, Len(s) - 1)), s[Len(s)])

\* localStorage.getItem of a key never written
NoEntry == [null |-> TRUE]

\* JSON.stringify of an array of items (an undefined field is no field)
JSONstringify(items) == [json |-> items]

\* A stored string that is not the JSON text of an array: JSON.parse throws
\* on it, or yields a value without a sort method.
Garbage == [garbage |-> TRUE]

\* JSON.parse(text).sort(...) does not throw
Parses(text) == "json" \in DOMAIN text

\* JSON.parse of a stored string
JSONparse(text) == text.json

\* ------------------------------------------------------------------- state
VARIABLES
  localStorage,    \* [GalleryTypes -> NoEntry or a JSON text]: key gallery-<type>
  lastEvent,       \* detail of the last "gallery-updated" event, or NoEntry
  eventParity,     \* flips with every "gallery-updated" event dispatched
  console,         \* what the latest step logged with console.error
  now,             \* the latest reading of Date.now()
  galleryItems,    \* GalleryManager state
  newItem,
  uploadSuccess,
  uploadError,
  isProcessing,
  editingItem,
  isEditDialogOpen,
  editedItem,      \* EditGalleryItem state; NoEntry while it is not mounted
  addTask,         \* handleAddGalleryItem suspended at its await, or NoEntry
  uploadTask,      \* handleImageUpload suspended at its await, or NoEntry
  dialogIsProcessing,  \* EditGalleryItem state isProcessing
  dialogUploadError,   \* EditGalleryItem state uploadError
  dialogUploadTask,    \* the dialog's handleImageUpload suspended at an
                       \* await, or NoEntry
  dialogErrorTimers,   \* the dialog's pending setTimeout(() => setUploadError(""), 3000)
  errorTimers,     \* pending setTimeout(() => setUploadError(""), 3000)
  successTimers,   \* pending setTimeout(() => setUploadSuccess(false), 3000)
  steps,           \* user inputs handled (direct calls made) so far
  subscriptions,   \* the listeners registered by listenToGalleryChanges, in
                   \* registration order: the callback, whether the listener is
                   \* still registered, how often it ran, its last arguments
  returned,        \* [value |-> the list the latest direct call of
                   \* getGalleryItems returned], or NoEntry before any call
  thrown           \* whether the latest call into gallery-store threw

storeVars == << localStorage, lastEvent, eventParity, subscriptions, returned, thrown >>
formVars == << newItem, uploadSuccess, uploadError, isProcessing >>
dialogVars == << editingItem, isEditDialogOpen, editedItem >>
taskVars == << addTask, uploadTask >>
timerVars == << errorTimers, successTimers >>
dialogUploadVars ==
  << dialogIsProcessing, dialogUploadError, dialogUploadTask, dialogErrorTimers >>
vars == << localStorage, lastEvent, eventParity, console, now, galleryItems,
           newItem, uploadSuccess, uploadError, isProcessing, editingItem,
           isEditDialogOpen, editedItem, addTask, uploadTask, errorTimers,
           successTimers, steps, subscriptions, returned, thrown,
           dialogIsProcessing, dialogUploadError, dialogUploadTask,
           dialogErrorTimers >>

\* One more user input (a click, a keystroke, a file picked) is handled.
UserInput ==
  /\ steps < MaxSteps
  /\ steps' = steps + 1

\* ------------------------------------------------------------ gallery-store
SaveError == "Error saving gallery to localStorage"
ConvertError == "Error al convertir blob a base64"
UploadError == "Error al procesar la imagen"

LoadError == "Error loading gallery from localStorage"

\* getGalleryItems whose catch block gives an empty list, not the seed
getGalleryItemsEmptyOnError(store, galleryType) ==
  IF store[galleryType] = NoEntry THEN INITIAL_GALLERIES[galleryType]
  ELSE IF Parses(store[galleryType]) THEN SortByOrder(JSONparse(store[galleryType]))
  ELSE << >>

\* getGalleryItems that takes a stored empty list for no data
getGalleryItemsSeedWhenEmpty(store, galleryType) ==
  IF /\ store[galleryType] # NoEntry
     /\ Parses(store[galleryType])
     /\ JSONparse(store[galleryType]) # << >>
  THEN SortByOrder(JSONparse(store[galleryType]))
  ELSE INITIAL_GALLERIES[galleryType]

\* getGalleryItems(galleryType) on the storage contents `store`: the stored
\* list sorted, or the seed when there is no entry or the try block throws
getGalleryItems(store, galleryType) ==
  IF store[galleryType] # NoEntry /\ Parses(store[galleryType])
  THEN SortByOrder(JSONparse(store[galleryType]))
  ELSE INITIAL_GALLERIES[galleryType]

\* what that call logs in its catch block
getGalleryItemsLogs(store, galleryType) ==
  IF store[galleryType] # NoEntry /\ ~Parses(store[galleryType])
  THEN {LoadError}
  ELSE {}

\* The map with order: index for every item, its own order overwritten.
itemsWithIndex(items) == [i \in 1..Len(items) |-> Put(items[i], "order", i - 1)]

\* The map with order: item.order || index, which takes an order of 0 for none.
itemsWithTruthyOrder(items) ==
  [i \in 1..Len(items) |->
     Put(items[i], "order", IF OrderOrZero(items[i]) # 0 THEN items[i].order ELSE i - 1)]

\* items.map((item, index) => ({...item, order: item.order !== undefined ? item.order : index}))
itemsWithOrder(items) ==
  [i \in 1..Len(items) |->
     Put(items[i], "order", IF Has(items[i], "order") THEN items[i].order ELSE i - 1)]

\* A dispatch that stops after the first registered listener.
dispatchToFirst(detail) ==
  [k \in 1..Len(subscriptions) |->
     IF subscriptions[k].active /\ \A j \in 1..(k - 1) : ~subscriptions[j].active
     THEN [subscriptions[k] EXCEPT !.calls = @ + 1, !.last = detail]
     ELSE subscriptions[k]]

\* window.dispatchEvent(new CustomEvent("gallery-updated", { detail })): every
\* registered listener runs once, synchronously, and calls its callback with
\* detail.type and detail.items.
dispatchEvent(detail) ==
  [k \in 1..Len(subscriptions) |->
     IF subscriptions[k].active
     THEN [subscriptions[k] EXCEPT !.calls = @ + 1, !.last = detail]
     ELSE subscriptions[k]]

\* saveGalleryItems with the event dispatched from the catch block as well
saveGalleryItemsAlwaysNotifying(galleryType, items, logged) ==
  /\ lastEvent' = [type |-> galleryType, items |-> itemsWithOrder(items)]
  /\ eventParity' = ~eventParity
  /\ subscriptions' = dispatchEvent([type |-> galleryType, items |-> itemsWithOrder(items)])
  /\ thrown' = FALSE
  /\ UNCHANGED returned
  /\ \/ /\ localStorage' = [localStorage EXCEPT
                              ![galleryType] = JSONstringify(itemsWithOrder(items))]
        /\ console' = logged
     \/ /\ console' = logged \cup {SaveError}
        /\ UNCHANGED localStorage

\* saveGalleryItems(galleryType, items): setItem either stores the text and the
\* event is dispatched, or throws (quota exceeded) and the catch only logs.
\* `logged` is what the calling handler has logged before the call.
saveGalleryItems(galleryType, items, logged) ==
  \/ /\ localStorage' = [localStorage EXCEPT
                           ![galleryType] = JSONstringify(itemsWithOrder(items))]
     /\ lastEvent' = [type |-> galleryType, items |-> itemsWithOrder(items)]
     /\ eventParity' = ~eventParity
     /\ subscriptions' = dispatchEvent([type |-> galleryType, items |-> itemsWithOrder(items)])
     /\ console' = logged
     /\ thrown' = FALSE
     /\ UNCHANGED returned
  \/ /\ console' = logged \cup {SaveError}
     /\ thrown' = FALSE
     /\ UNCHANGED << localStorage, lastEvent, eventParity, subscriptions, returned >>

\* The parent's onUpdateGallery callback. The parent component is not among
\* the sources; by the design document (4.3) every editor operation hands its
\* new list to saveItems, and the parent passes the stored list as
\* initialItems when the editor mounts.
onUpdateGallery(items, logged) == saveGalleryItems(galleryId, items, logged)

\* ---------------------------------------------------------- gallery-manager
\* updatedItems.map((item, index) => ({...item, order: index}))
Reindex(items) == [i \in 1..Len(items) |-> Put(items[i], "order", i - 1)]

\* No modal dialog covers the page: the editor's controls can be used.
PageActive == ~isEditDialogOpen

\* setGalleryItems(items); onUpdateGallery(items)
Commit(items, logged) ==
  /\ galleryItems' = items
  /\ onUpdateGallery(items, logged)

\* newItem after "Reset form"
EmptyForm == [title |-> "", description |-> "", imageUrl |-> Placeholder]

ValidationMessage == "Por favor complete todos los campos"
ProcessingMessage == "Procesando imagen..."
ProcessingError == "Error al procesar la imagen. Intente nuevamente."

\* A reading of Date.now(): the clock never runs backwards, and need not have
\* advanced since the previous reading.
ClockReadings == {now, now + 1}

\* { id: Date.now(), ...newItem, order: galleryItems.length }, Date.now()
\* reading `timestamp`
newGalleryItem(timestamp) ==
  [id |-> timestamp, title |-> newItem.title, description |-> newItem.description,
   imageUrl |-> newItem.imageUrl, order |-> Len(galleryItems)]

\* Lines 74-90 and 96 of handleAddGalleryItem: the list the handler closed over,
\* with the new item appended, becomes the state and is handed to the parent.
AddCommit(items, item, logged) ==
  /\ Commit(Append(items, item), logged)
  /\ newItem' = EmptyForm
  /\ uploadSuccess' = TRUE
  /\ successTimers' = successTimers + 1
  /\ isProcessing' = FALSE

\* The check with the description forgotten: newItem.title alone.
FormValidTitleOnly == newItem.title # ""

\* newItem.title && newItem.description
FormValid == newItem.title # "" /\ newItem.description # ""

\* handleAddGalleryItem up to its first await (or to its end, when the image
\* is no object URL and nothing is awaited). The button is disabled while
\* isProcessing.
handleAddGalleryItem ==
  /\ PageActive
  /\ ~isProcessing
  /\ UserInput
  /\ IF FormValid
     THEN /\ \E timestamp \in ClockReadings :
               /\ now' = timestamp
               /\ IF StartsWithBlob(newItem.imageUrl)
                  THEN /\ isProcessing' = TRUE
                       /\ addTask' = [items |-> galleryItems,
                                      item |-> newGalleryItem(timestamp)]
                       /\ console' = {}
                       /\ UNCHANGED << storeVars, galleryItems, newItem,
                                       uploadSuccess, successTimers >>
                  ELSE /\ AddCommit(galleryItems, newGalleryItem(timestamp), {})
                       /\ UNCHANGED addTask
          /\ UNCHANGED << uploadError, errorTimers >>
     ELSE /\ uploadError' = ValidationMessage
          /\ errorTimers' = errorTimers + 1
          /\ console' = {}
          /\ UNCHANGED << storeVars, now, galleryItems, newItem, uploadSuccess,
                          isProcessing, addTask, successTimers >>
  /\ UNCHANGED << dialogVars, uploadTask >>
  /\ UNCHANGED dialogUploadVars

\* The awaited fetch / blob / fileToDataUrl of handleAddGalleryItem settles:
\* the data URL replaces the object URL, or one of them threw and the inner
\* catch only logged. The handler then runs to its end.
AddResume(converted) ==
  /\ addTask # NoEntry
  /\ IF converted
     THEN AddCommit(addTask.items, [addTask.item EXCEPT !.imageUrl = DataUrl], {})
     ELSE AddCommit(addTask.items, addTask.item, {ConvertError})
  /\ addTask' = NoEntry
  /\ UNCHANGED << now, uploadError, dialogVars, uploadTask, errorTimers, steps >>
  /\ UNCHANGED dialogUploadVars

\* handleImageUpload of the manager up to its await of optimizeImage
handleImageUpload ==
  /\ PageActive
  /\ ~isProcessing
  /\ UserInput
  /\ isProcessing' = TRUE
  /\ uploadSuccess' = FALSE
  /\ uploadError' = ProcessingMessage
  /\ uploadTask' = [newItem |-> newItem]
  /\ console' = {}
  /\ UNCHANGED << storeVars, now, galleryItems, newItem, dialogVars, addTask, timerVars >>
  /\ UNCHANGED dialogUploadVars

\* optimizeImage settles: the object URL goes into the form, or the catch
\* reports the failure.
UploadResume(optimized) ==
  /\ uploadTask # NoEntry
  /\ IF optimized
     THEN /\ newItem' = [uploadTask.newItem EXCEPT !.imageUrl = BlobUrl]
          /\ uploadError' = ""
          /\ console' = {}
          /\ UNCHANGED errorTimers
     ELSE /\ uploadError' = ProcessingError
          /\ errorTimers' = errorTimers + 1
          /\ console' = {UploadError}
          /\ UNCHANGED newItem
  /\ isProcessing' = FALSE
  /\ uploadTask' = NoEntry
  /\ UNCHANGED << storeVars, now, galleryItems, uploadSuccess, dialogVars, addTask,
                  successTimers, steps >>
  /\ UNCHANGED dialogUploadVars

\* onChange of the title input (disabled while isProcessing)
setTitle(value) ==
  /\ PageActive
  /\ ~isProcessing
  /\ value # newItem.title
  /\ UserInput
  /\ newItem' = [newItem EXCEPT !.title = value]
  /\ console' = {}
  /\ UNCHANGED << storeVars, now, galleryItems, uploadSuccess, uploadError,
                  isProcessing, dialogVars, taskVars, timerVars >>
  /\ UNCHANGED dialogUploadVars

\* onChange of the description textarea (disabled while isProcessing)
setDescription(value) ==
  /\ PageActive
  /\ ~isProcessing
  /\ value # newItem.description
  /\ UserInput
  /\ newItem' = [newItem EXCEPT !.description = value]
  /\ console' = {}
  /\ UNCHANGED << storeVars, now, galleryItems, uploadSuccess, uploadError,
                  isProcessing, dialogVars, taskVars, timerVars >>
  /\ UNCHANGED dialogUploadVars

\* setTimeout(() => setUploadError(""), 3000) fires
ErrorTimeout ==
  /\ errorTimers > 0
  /\ errorTimers' = errorTimers - 1
  /\ uploadError' = ""
  /\ console' = {}
  /\ UNCHANGED << storeVars, now, galleryItems, newItem, uploadSuccess, isProcessing,
                  dialogVars, taskVars, successTimers, steps >>
  /\ UNCHANGED dialogUploadVars

\* setTimeout(() => setUploadSuccess(false), 3000) fires
SuccessTimeout ==
  /\ successTimers > 0
  /\ successTimers' = successTimers - 1
  /\ uploadSuccess' = FALSE
  /\ console' = {}
  /\ UNCHANGED << storeVars, now, galleryItems, newItem, uploadError, isProcessing,
                  dialogVars, taskVars, errorTimers, steps >>
  /\ UNCHANGED dialogUploadVars

\* handleDeleteItem(id)
handleDeleteItem(id) ==
  /\ PageActive
  /\ UserInput
  /\ LET updatedItems == SelectSeq(galleryItems, LAMBDA item : item.id # id)
         reorderedItems == Reindex(updatedItems)
     IN Commit(reorderedItems, {})
  /\ UNCHANGED << now, formVars, dialogVars, taskVars, timerVars >>
  /\ UNCHANGED dialogUploadVars

\* handleMoveUp without its early return: the top item is written back as it is.
handleMoveUpSavingAtTop(index) ==
  /\ PageActive
  /\ UserInput
  /\ IF index <= 0
     THEN Commit(galleryItems, {})
     ELSE LET itemToMove == Put(galleryItems[index + 1], "order", index - 1)
              itemToReplace == Put(galleryItems[index], "order", index)
              newItems == [galleryItems EXCEPT ![index + 1] = itemToReplace,
                                               ![index] = itemToMove]
          IN Commit(newItems, {})
  /\ UNCHANGED << now, formVars, dialogVars, taskVars, timerVars >>
  /\ UNCHANGED dialogUploadVars

\* handleMoveUp(index), index 0-based as in the code
handleMoveUp(index) ==
  /\ PageActive
  /\ UserInput
  /\ IF index <= 0
     THEN /\ console' = {}
          /\ UNCHANGED << storeVars, galleryItems >>
     ELSE LET itemToMove == Put(galleryItems[index + 1], "order", index - 1)
              itemToReplace == Put(galleryItems[index], "order", index)
              newItems == [galleryItems EXCEPT ![index + 1] = itemToReplace,
                                               ![index] = itemToMove]
          IN Commit(newItems, {})
  /\ UNCHANGED << now, formVars, dialogVars, taskVars, timerVars >>
  /\ UNCHANGED dialogUploadVars

\* handleMoveDown(index)
handleMoveDown(index) ==
  /\ PageActive
  /\ UserInput
  /\ IF index >= Len(galleryItems) - 1
     THEN /\ console' = {}
          /\ UNCHANGED << storeVars, galleryItems >>
     ELSE LET itemToMove == Put(galleryItems[index + 1], "order", index + 1)
              itemToReplace == Put(galleryItems[index + 2], "order", index)
              newItems == [galleryItems EXCEPT ![index + 1] = itemToReplace,
                                               ![index + 2] = itemToMove]
          IN Commit(newItems, {})
  /\ UNCHANGED << now, formVars, dialogVars, taskVars, timerVars >>
  /\ UNCHANGED dialogUploadVars

\* The map with the comparison of identifiers left out: every item is replaced.
ReplaceAll(items, replacement) == [i \in 1..Len(items) |-> replacement]

\* items.map((i) => (i.id === replacement.id ? replacement : i))
ReplaceById(items, replacement) ==
  [i \in 1..Len(items) |->
     IF items[i].id = replacement.id THEN replacement ELSE items[i]]

\* The list handleToggleFeatured(item) builds from `items`:
\* updatedItem = { ...item, featured: !item.featured }, then the map by id.
toggleFeatured(items, item) ==
  LET updatedItem == Put(item, "featured", NotFeatured(item))
  IN ReplaceById(items, updatedItem)

\* handleToggleFeatured(item), item an element of the rendered list
handleToggleFeatured(item) ==
  /\ PageActive
  /\ UserInput
  /\ Commit(toggleFeatured(galleryItems, item), {})
  /\ UNCHANGED << now, formVars, dialogVars, taskVars, timerVars >>
  /\ UNCHANGED dialogUploadVars

\* handleEditItem(item): the dialog component is mounted the first time
\* editingItem is set, and stays mounted (editingItem is never reset), so its
\* useState initialiser { ...item } runs on that first mount only.
handleEditItem(item) ==
  /\ PageActive
  /\ UserInput
  /\ editingItem' = item
  /\ isEditDialogOpen' = TRUE
  /\ editedItem' = IF editingItem = NoEntry THEN item ELSE editedItem
  /\ console' = {}
  /\ UNCHANGED << storeVars, now, galleryItems, formVars, taskVars, timerVars >>
  /\ UNCHANGED dialogUploadVars

\* handleSaveEditedItem(updatedItem)
handleSaveEditedItem(updatedItem) ==
  Commit(ReplaceById(galleryItems, updatedItem), {})

\* ------------------------------------------------------- edit-gallery-item
EditedTitle == "Titulo editado"

\* onChange of the dialog's title input (disabled while the dialog's
\* isProcessing)
editTitle ==
  /\ isEditDialogOpen
  /\ ~dialogIsProcessing
  /\ editedItem.title # EditedTitle
  /\ UserInput
  /\ editedItem' = [editedItem EXCEPT !.title = EditedTitle]
  /\ console' = {}
  /\ UNCHANGED << storeVars, now, galleryItems, formVars, editingItem,
                  isEditDialogOpen, taskVars, timerVars >>
  /\ UNCHANGED dialogUploadVars

\* onChange of the dialog's checkbox, shown checked when !!editedItem.featured
editFeatured ==
  /\ isEditDialogOpen
  /\ UserInput
  /\ editedItem' = Put(editedItem, "featured", NotFeatured(editedItem))
  /\ console' = {}
  /\ UNCHANGED << storeVars, now, galleryItems, formVars, editingItem,
                  isEditDialogOpen, taskVars, timerVars >>
  /\ UNCHANGED dialogUploadVars

\* handleSave: onSave(editedItem); onOpenChange(false). The button is disabled
\* while the dialog's isProcessing.
handleSave ==
  /\ isEditDialogOpen
  /\ ~dialogIsProcessing
  /\ UserInput
  /\ handleSaveEditedItem(editedItem)
  /\ isEditDialogOpen' = FALSE
  /\ UNCHANGED << now, formVars, editingItem, editedItem, taskVars, timerVars >>
  /\ UNCHANGED dialogUploadVars

\* Cancelar: onOpenChange(false)
handleCancel ==
  /\ isEditDialogOpen
  /\ UserInput
  /\ isEditDialogOpen' = FALSE
  /\ console' = {}
  /\ UNCHANGED << storeVars, now, galleryItems, formVars, editingItem, editedItem,
                  taskVars, timerVars >>
  /\ UNCHANGED dialogUploadVars

\* handleImageUpload of the dialog up to its await of optimizeImage. The file
\* input is disabled while the dialog's isProcessing.
dialogHandleImageUpload ==
  /\ isEditDialogOpen
  /\ ~dialogIsProcessing
  /\ UserInput
  /\ dialogIsProcessing' = TRUE
  /\ dialogUploadError' = ProcessingMessage
  /\ dialogUploadTask' = [editedItem |-> editedItem]
  /\ console' = {}
  /\ UNCHANGED << storeVars, now, galleryItems, formVars, dialogVars, taskVars,
                  timerVars, dialogErrorTimers >>

\* The dialog's handleImageUpload that leaves isProcessing set when the image
\* step fails
DialogUploadResumeNoFinally(optimized) ==
  /\ dialogUploadTask # NoEntry
  /\ IF optimized
     THEN /\ editedItem' = [dialogUploadTask.editedItem EXCEPT !.imageUrl = DataUrl]
          /\ dialogUploadError' = ""
          /\ console' = {}
          /\ dialogIsProcessing' = FALSE
          /\ UNCHANGED dialogErrorTimers
     ELSE /\ dialogUploadError' = ProcessingError
          /\ dialogErrorTimers' = dialogErrorTimers + 1
          /\ console' = {UploadError}
          /\ UNCHANGED << editedItem, dialogIsProcessing >>
  /\ dialogUploadTask' = NoEntry
  /\ UNCHANGED << storeVars, now, galleryItems, formVars, editingItem,
                  isEditDialogOpen, taskVars, timerVars, steps >>

\* The awaited optimizeImage and fileToDataUrl of the dialog's
\* handleImageUpload settle: the data URL goes into the copy of the item the
\* handler was created with, or one of them threw and the catch reports it.
\* finally clears isProcessing.
DialogUploadResume(optimized) ==
  /\ dialogUploadTask # NoEntry
  /\ IF optimized
     THEN /\ editedItem' = [dialogUploadTask.editedItem EXCEPT !.imageUrl = DataUrl]
          /\ dialogUploadError' = ""
          /\ console' = {}
          /\ UNCHANGED dialogErrorTimers
     ELSE /\ dialogUploadError' = ProcessingError
          /\ dialogErrorTimers' = dialogErrorTimers + 1
          /\ console' = {UploadError}
          /\ UNCHANGED editedItem
  /\ dialogIsProcessing' = FALSE
  /\ dialogUploadTask' = NoEntry
  /\ UNCHANGED << storeVars, now, galleryItems, formVars, editingItem,
                  isEditDialogOpen, taskVars, timerVars, steps >>

\* The dialog's setTimeout(() => setUploadError(""), 3000) fires
DialogErrorTimeout ==
  /\ dialogErrorTimers > 0
  /\ dialogErrorTimers' = dialogErrorTimers - 1
  /\ dialogUploadError' = ""
  /\ console' = {}
  /\ UNCHANGED << storeVars, now, galleryItems, formVars, dialogVars, taskVars,
                  timerVars, steps, dialogIsProcessing, dialogUploadTask >>

\* ------------------------------------------- gallery-store, called directly
\* The exported functions of gallery-store.ts as any page of the site calls
\* them. No editor is mounted: its state stays as constructed.
editorVars ==
  << now, galleryItems, formVars, dialogVars, taskVars, timerVars, dialogUploadVars >>

\* One more call into the module is made.
ClientCall ==
  /\ steps < MaxCalls
  /\ steps' = steps + 1

ReorderError == "Error reordering gallery items"

\* getGalleryItems(galleryType), called by a page
callGetGalleryItems(galleryType) ==
  /\ ClientCall
  /\ returned' = [value |-> getGalleryItems(localStorage, galleryType)]
  /\ console' = getGalleryItemsLogs(localStorage, galleryType)
  /\ thrown' = FALSE
  /\ UNCHANGED << localStorage, lastEvent, eventParity, subscriptions, editorVars >>

\* saveGalleryItems(galleryType, items), called by a page
callSaveGalleryItems(galleryType, items) ==
  /\ ClientCall
  /\ saveGalleryItems(galleryType, items, {})
  /\ UNCHANGED editorVars

\* updateGalleryItem(galleryType, updatedItem): neither call in its try block
\* throws, so its own catch block is never entered.
updateGalleryItem(galleryType, updatedItem) ==
  /\ ClientCall
  /\ LET items == getGalleryItems(localStorage, galleryType)
         updatedItems == ReplaceById(items, updatedItem)
     IN saveGalleryItems(galleryType, updatedItems,
                         getGalleryItemsLogs(localStorage, galleryType))
  /\ UNCHANGED editorVars

\* items.find((i) => i.id === id), for an id that some item has
Find(items, id) ==
  items[CHOOSE i \in 1..Len(items) :
          /\ items[i].id = id
          /\ \A j \in 1..(i - 1) : items[j].id # id]

\* reorderGalleryItems that drops the ids no item has and saves the rest.
reorderSkippingUnknown(galleryType, itemIds) ==
  /\ ClientCall
  /\ LET items == getGalleryItems(localStorage, galleryType)
         logged == getGalleryItemsLogs(localStorage, galleryType)
         known == SelectSeq(itemIds, LAMBDA id : \E i \in 1..Len(items) : items[i].id = id)
         reorderedItems ==
           [k \in 1..Len(known) |-> Put(Find(items, known[k]), "order", k - 1)]
     IN saveGalleryItems(galleryType, reorderedItems, logged)
  /\ UNCHANGED editorVars

\* reorderGalleryItems(galleryType, itemIds): the map throws at the first id
\* no item has, and the catch block logs.
reorderGalleryItems(galleryType, itemIds) ==
  /\ ClientCall
  /\ LET items == getGalleryItems(localStorage, galleryType)
         logged == getGalleryItemsLogs(localStorage, galleryType)
     IN IF \A k \in 1..Len(itemIds) : \E i \in 1..Len(items) : items[i].id = itemIds[k]
        THEN LET reorderedItems ==
                   [k \in 1..Len(itemIds) |-> Put(Find(items, itemIds[k]), "order", k - 1)]
             IN saveGalleryItems(galleryType, reorderedItems, logged)
        ELSE /\ console' = logged \cup {ReorderError}
             /\ thrown' = FALSE
             /\ UNCHANGED << localStorage, lastEvent, eventParity, subscriptions, returned >>
  /\ UNCHANGED editorVars

\* listenToGalleryChanges(callback): a new listener is registered for the
\* callback; the function returned is the handle of that listener.
listenToGalleryChanges(callback) ==
  /\ ClientCall
  /\ subscriptions' = Append(subscriptions,
                             [callback |-> callback, active |-> TRUE,
                              calls |-> 0, last |-> NoEntry])
  /\ console' = {}
  /\ thrown' = FALSE
  /\ UNCHANGED << localStorage, lastEvent, eventParity, returned, editorVars >>

\* The handle that keeps every listener registered
keepListener(k) ==
  /\ ClientCall
  /\ k \in 1..Len(subscriptions)
  /\ console' = {}
  /\ thrown' = FALSE
  /\ UNCHANGED << localStorage, lastEvent, eventParity, subscriptions, returned, editorVars >>

\* The function returned by the k-th listenToGalleryChanges call:
\* window.removeEventListener("gallery-updated", handleGalleryUpdate)
unsubscribe(k) ==
  /\ ClientCall
  /\ k \in 1..Len(subscriptions)
  /\ subscriptions' = [subscriptions EXCEPT ![k].active = FALSE]
  /\ console' = {}
  /\ thrown' = FALSE
  /\ UNCHANGED << localStorage, lastEvent, eventParity, returned, editorVars >>

\* Object.keys(INITIAL_GALLERIES), in the order of the literal
KeyOrder == << "hero", "eventos", "actividades", "propuestas-accion" >>

\* initializeGalleryStore without its getItem test: every key is written.
initializeOverwriting(failAt) ==
  /\ ClientCall
  /\ localStorage' =
       [g \in GalleryTypes |->
          IF \E k \in 1..(failAt - 1) : k <= Len(KeyOrder) /\ KeyOrder[k] = g
          THEN JSONstringify(INITIAL_GALLERIES[g])
          ELSE localStorage[g]]
  /\ thrown' = (failAt \in 1..Len(KeyOrder))
  /\ console' = {}
  /\ UNCHANGED << lastEvent, eventParity, subscriptions, returned, editorVars >>

\* initializeGalleryStore(): the keys are visited in order and a key without
\* an entry is written with the seed; no event is dispatched. There is no try
\* block: a setItem that throws (quota exceeded) ends the call with the
\* earlier keys written. failAt is the position of that key, or beyond the
\* last key when no setItem throws.
initializeGalleryStore(failAt) ==
  /\ ClientCall
  /\ failAt \in 1..Len(KeyOrder) => localStorage[KeyOrder[failAt]] = NoEntry
  /\ localStorage' =
       [g \in GalleryTypes |->
          IF /\ localStorage[g] = NoEntry
             /\ \E k \in 1..(failAt - 1) : k <= Len(KeyOrder) /\ KeyOrder[k] = g
          THEN JSONstringify(INITIAL_GALLERIES[g])
          ELSE localStorage[g]]
  /\ thrown' = (failAt \in 1..Len(KeyOrder))
  /\ console' = {}
  /\ UNCHANGED << lastEvent, eventParity, subscriptions, returned, editorVars >>

\* Something other than gallery-store writes the gallery's key (another
\* script of the origin, the developer tools): the entry no longer parses.
foreignWrite(galleryType) ==
  /\ ClientCall
  /\ localStorage[galleryType] # Garbage
  /\ localStorage' = [localStorage EXCEPT ![galleryType] = Garbage]
  /\ console' = {}
  /\ UNCHANGED << lastEvent, eventParity, subscriptions, returned, thrown, editorVars >>

\* ---------------------------------------------------------------- behaviour
Titles == {"", "Nueva imagen"}
Descriptions == {"", "Descripcion nueva"}

Init ==
  /\ localStorage = [g \in GalleryTypes |-> NoEntry]
  /\ lastEvent = NoEntry
  /\ eventParity = FALSE
  /\ console = {}
  /\ now = Epoch
  /\ galleryItems = getGalleryItems(localStorage, galleryId)
  /\ newItem = EmptyForm
  /\ uploadSuccess = FALSE
  /\ uploadError = ""
  /\ isProcessing = FALSE
  /\ editingItem = NoEntry
  /\ isEditDialogOpen = FALSE
  /\ editedItem = NoEntry
  /\ addTask = NoEntry
  /\ uploadTask = NoEntry
  /\ errorTimers = 0
  /\ successTimers = 0
  /\ steps = 0
  /\ subscriptions = << >>
  /\ returned = NoEntry
  /\ thrown = FALSE
  /\ dialogIsProcessing = FALSE
  /\ dialogUploadError = ""
  /\ dialogUploadTask = NoEntry
  /\ dialogErrorTimers = 0

Rendered == {galleryItems[i] : i \in 1..Len(galleryItems)}

\* The indexes the move handlers are called with: those of the rendered rows
\* (the boundary arrows are rendered disabled; the handlers check the boundary
\* themselves), and 0 on an empty list, where no row is rendered.
Positions == IF galleryItems = << >> THEN {0} ELSE 0..(Len(galleryItems) - 1)

Next ==
  \/ handleAddGalleryItem
  \/ \E converted \in BOOLEAN : AddResume(converted)
  \/ \E item \in Rendered : handleDeleteItem(item.id)
  \/ handleImageUpload
  \/ \E optimized \in BOOLEAN : UploadResume(optimized)
  \/ \E value \in Titles : setTitle(value)
  \/ \E value \in Descriptions : setDescription(value)
  \/ \E index \in Positions : handleMoveUp(index)
  \/ \E index \in Positions : handleMoveDown(index)
  \/ \E item \in Rendered : handleToggleFeatured(item)
  \/ \E item \in Rendered : handleEditItem(item)
  \/ editTitle
  \/ editFeatured
  \/ handleSave
  \/ handleCancel
  \/ ErrorTimeout
  \/ SuccessTimeout

Spec == Init /\ [][Next]_vars

\* The editor with the dialog's image upload, for MaxInputs user inputs, and
\* every awaited image step settling at some time: the browser resumes a
\* handler once the promise it awaits is fulfilled or rejected.
ProcessingNext ==
  \/ handleAddGalleryItem /\ steps' <= MaxInputs
  \/ \E converted \in BOOLEAN : AddResume(converted)
  \/ \E item \in Rendered : handleDeleteItem(item.id) /\ steps' <= MaxInputs
  \/ handleImageUpload /\ steps' <= MaxInputs
  \/ \E optimized \in BOOLEAN : UploadResume(optimized)
  \/ \E value \in Titles : setTitle(value) /\ steps' <= MaxInputs
  \/ \E value \in Descriptions : setDescription(value) /\ steps' <= MaxInputs
  \/ \E index \in Positions : handleMoveUp(index) /\ steps' <= MaxInputs
  \/ \E index \in Positions : handleMoveDown(index) /\ steps' <= MaxInputs
  \/ \E item \in Rendered : handleToggleFeatured(item) /\ steps' <= MaxInputs
  \/ \E item \in Rendered : handleEditItem(item) /\ steps' <= MaxInputs
  \/ editTitle /\ steps' <= MaxInputs
  \/ editFeatured /\ steps' <= MaxInputs
  \/ handleSave /\ steps' <= MaxInputs
  \/ handleCancel /\ steps' <= MaxInputs
  \/ dialogHandleImageUpload /\ steps' <= MaxInputs
  \/ \E optimized \in BOOLEAN : DialogUploadResume(optimized)
  \/ ErrorTimeout
  \/ SuccessTimeout
  \/ DialogErrorTimeout

ProcessingSpec ==
  /\ Init
  /\ [][ProcessingNext]_vars
  /\ WF_vars(\E converted \in BOOLEAN : AddResume(converted))
  /\ WF_vars(\E optimized \in BOOLEAN : UploadResume(optimized))
  /\ WF_vars(\E optimized \in BOOLEAN : DialogUploadResume(optimized))

\* The page with the form's two text fields typed in, nothing else touched:
\* the state of Spec after setTitle and setDescription.
TypedForm ==
  [title |-> "Nueva imagen", description |-> "Descripcion nueva", imageUrl |-> Placeholder]

TypedInit ==
  /\ localStorage = [g \in GalleryTypes |-> NoEntry]
  /\ lastEvent = NoEntry
  /\ eventParity = FALSE
  /\ console = {}
  /\ now = Epoch
  /\ galleryItems = getGalleryItems(localStorage, galleryId)
  /\ newItem = TypedForm
  /\ uploadSuccess = FALSE
  /\ uploadError = ""
  /\ isProcessing = FALSE
  /\ editingItem = NoEntry
  /\ isEditDialogOpen = FALSE
  /\ editedItem = NoEntry
  /\ addTask = NoEntry
  /\ uploadTask = NoEntry
  /\ errorTimers = 0
  /\ successTimers = 0
  /\ steps = 0
  /\ subscriptions = << >>
  /\ returned = NoEntry
  /\ thrown = FALSE
  /\ dialogIsProcessing = FALSE
  /\ dialogUploadError = ""
  /\ dialogUploadTask = NoEntry
  /\ dialogErrorTimers = 0

\* The editor from that state on: the user inputs counted are the later ones.
TypedSpec == TypedInit /\ [][Next]_vars

\* The arguments of the direct calls.
StoreGalleries == {galleryId}

Drop(item, f) == [k \in (DOMAIN item) \ {f} |-> item[k]]

SeedItem(i) == INITIAL_GALLERIES[galleryId][i]

\* Lists handed to saveGalleryItems: the empty list; two items without order;
\* two items whose orders run against their positions; an item with an order
\* before one without (both end with order 1).
SaveLists ==
  { << >>,
    << Drop(SeedItem(1), "order"), Drop(SeedItem(2), "order") >>,
    << Put(SeedItem(1), "order", 1), Put(SeedItem(2), "order", 0) >>,
    << Put(SeedItem(2), "order", 1), Drop(SeedItem(1), "order") >> }

\* Items handed to updateGalleryItem: a seed item retitled, with and without
\* its order, and an item no list holds.
UpdateItems ==
  { [SeedItem(1) EXCEPT !.title = EditedTitle],
    Drop([SeedItem(2) EXCEPT !.title = EditedTitle], "order"),
    [SeedItem(1) EXCEPT !.id = 9] }

\* Identifier lists handed to reorderGalleryItems.
ItemIdLists == { << 2, 1 >>, << 1 >>, << 2, 9 >> }

Callbacks == {"onGalleryA", "onGalleryB"}

StoreNext ==
  \/ \E g \in StoreGalleries : callGetGalleryItems(g)
  \/ \E g \in StoreGalleries : \E items \in SaveLists : callSaveGalleryItems(g, items)
  \/ \E g \in StoreGalleries : \E updatedItem \in UpdateItems : updateGalleryItem(g, updatedItem)
  \/ \E g \in StoreGalleries : \E itemIds \in ItemIdLists : reorderGalleryItems(g, itemIds)
  \/ \E callback \in Callbacks : listenToGalleryChanges(callback)
  \/ \E k \in 1..Len(subscriptions) : unsubscribe(k)
  \/ \E failAt \in 1..(Len(KeyOrder) + 1) : initializeGalleryStore(failAt)
  \/ \E g \in StoreGalleries : foreignWrite(g)

StoreSpec == Init /\ [][StoreNext]_vars

\* =================================================================== claims
\* The list stored for gallery g (only meaningful where an entry exists).
Persisted(g) == JSONparse(localStorage[g])

Stored == {g \in GalleryTypes : localStorage[g] # NoEntry}

NoHandlerInProgress == addTask = NoEntry /\ uploadTask = NoEntry

IdsOf(items) == {items[i].id : i \in 1..Len(items)}

DistinctIds(items) ==
  \A i, j \in 1..Len(items) : i # j => items[i].id # items[j].id

\* Every item has a defined order equal to its 0-based position.
OrderIsPosition(items) ==
  \A i \in 1..Len(items) : Has(items[i], "order") /\ items[i].order = i - 1

\* A step in which a suspended handleAddGalleryItem resumes and runs to its end.
AddResumes == addTask # NoEntry /\ addTask' = NoEntry

\* A step in which handleAddGalleryItem commits (only its commit arms the
\* success banner's timer).
AddCommits == successTimers' = successTimers + 1

\* C1: every list written to a gallery's storage entry has, at every position
\* i (0-based), an item whose order is defined and equal to i.
C1_PersistedOrderIsPosition ==
  \A g \in Stored : OrderIsPosition(Persisted(g))

\* C2: in every reachable state the items of the gallery, in the editor's
\* list and in the persisted list, have pairwise distinct identifiers.
C2_DistinctIdentifiers ==
  /\ DistinctIds(galleryItems)
  /\ \A g \in Stored : DistinctIds(Persisted(g))

\* C3: whenever no handler is in progress, the editor's list is what
\* getGalleryItems returns for its gallery.
C3_DisplayedIsPersisted ==
  NoHandlerInProgress => galleryItems = getGalleryItems(localStorage, galleryId)

\* C4: the list an Add commits when it resumes from its image conversion is
\* the list left by the most recently committed operation with the new item
\* appended: nothing committed meanwhile is overwritten or undone.
C4_AddResumesOnLatestList ==
  [][AddResumes =>
       /\ Len(galleryItems') = Len(galleryItems) + 1
       /\ SubSeq(galleryItems', 1, Len(galleryItems)) = galleryItems]_vars

\* C5: no item whose image reference is an object URL (blob:) is ever in a
\* stored list.
C5_NoBlobPersisted ==
  \A g \in Stored :
    \A i \in 1..Len(Persisted(g)) : ~StartsWithBlob(Persisted(g)[i].imageUrl)

\* C6: when fetching or converting the image throws during Add, the Add does
\* not commit: both lists stay as they were and the error banner, not the
\* success banner, is shown.
C6_FailedConversionAborts ==
  [][(AddResumes /\ ConvertError \in console') =>
       /\ galleryItems' = galleryItems
       /\ localStorage' = localStorage
       /\ uploadError' = ProcessingError
       /\ ~uploadSuccess']_vars

\* C7: an Add that commits leaves the list one longer than it was immediately
\* before the commit, the new item last, its order that previous length.
C7_AddAppendsAtLength ==
  [][AddCommits =>
       /\ Len(galleryItems') = Len(galleryItems) + 1
       /\ galleryItems'[Len(galleryItems')].order = Len(galleryItems)]_vars

\* C8: an Add click with an empty title or an empty description changes
\* neither list and emits no event; it shows the validation message and arms
\* a timer; the message is only ever shown while such a timer is pending, and
\* a timer that fires clears it.
C8_EmptyFormRejected ==
  [][/\ (handleAddGalleryItem /\ (newItem.title = "" \/ newItem.description = "")) =>
          /\ galleryItems' = galleryItems
          /\ localStorage' = localStorage
          /\ eventParity' = eventParity
          /\ lastEvent' = lastEvent
          /\ uploadError' = ValidationMessage
          /\ errorTimers' = errorTimers + 1
     /\ (uploadError' = ValidationMessage) => errorTimers' > 0
     /\ (errorTimers' = errorTimers - 1) => uploadError' = ""]_vars

\* An Add was rejected for its empty description and its message is showing.
C8_Witness ==
  /\ uploadError = ValidationMessage
  /\ newItem.title # ""
  /\ newItem.description = ""
  /\ galleryItems = INITIAL_GALLERIES[galleryId]
  /\ localStorage[galleryId] = NoEntry

\* The items of `items` whose identifier is not id, in their sequence.
RECURSIVE Without(_, _)
Without(items, id) ==
  IF items = << >> THEN << >>
  ELSE IF Head(items).id = id THEN Without(Tail(items), id)
       ELSE << Head(items) >> \o Without(Tail(items), id)

\* p and q are the same item but for their order.
SameButOrder(p, q) ==
  /\ DOMAIN p \cup {"order"} = DOMAIN q \cup {"order"}
  /\ \A f \in DOMAIN p \ {"order"} : p[f] = q[f]

\* C9: Delete(id) leaves the previous items without those whose identifier is
\* id, in their previous sequence, with orders 0..n-1 by position, and a
\* following getGalleryItems returns a list whose orders are contiguous from 0.
C9_DeleteReindexes ==
  [][\A id \in IdsOf(galleryItems) :
       handleDeleteItem(id) =>
         LET kept == Without(galleryItems, id)
             fetched == getGalleryItems(localStorage', galleryId)
         IN /\ Len(galleryItems') = Len(kept)
            /\ \A i \in 1..Len(kept) : SameButOrder(galleryItems'[i], kept[i])
            /\ OrderIsPosition(galleryItems')
            /\ OrderIsPosition(fetched)]_vars

\* A MoveUp(index) (up = TRUE) or MoveDown(index) step away from the boundary.
Moves(index, up) ==
  IF up THEN index > 0 /\ handleMoveUp(index)
  ELSE index < Len(galleryItems) - 1 /\ handleMoveDown(index)

\* C10: MoveUp(index) / MoveDown(index) away from the boundary exchanges the
\* item at index with its neighbour, exchanges the two items' order values
\* and leaves every other item, the length and the identifiers unchanged.
C10_MoveExchanges ==
  [][\A index \in 0..(Len(galleryItems) - 1) : \A up \in BOOLEAN :
       Moves(index, up) =>
         LET a == index + 1
             b == IF up THEN index ELSE index + 2
         IN /\ Len(galleryItems') = Len(galleryItems)
            /\ IdsOf(galleryItems') = IdsOf(galleryItems)
            /\ SameButOrder(galleryItems'[a], galleryItems[b])
            /\ SameButOrder(galleryItems'[b], galleryItems[a])
            /\ galleryItems'[a].order = galleryItems[a].order
            /\ galleryItems'[b].order = galleryItems[b].order
            /\ \A i \in 1..Len(galleryItems) :
                 i \notin {a, b} => galleryItems'[i] = galleryItems[i]]_vars

\* A MoveUp(index) step at the top or a MoveDown(index) step at the bottom
\* (on an empty list every index is both).
MovesAtBoundary(index) ==
  \/ index = 0 /\ handleMoveUp(index)
  \/ (index = Len(galleryItems) - 1 \/ galleryItems = << >>) /\ handleMoveDown(index)

\* C11: MoveUp(0) and MoveDown(last index), and either move on an empty list,
\* change neither the editor's list nor the stored list, and save nothing: no
\* write is attempted and no "gallery-updated" event is dispatched.
C11_BoundaryMovesAreNoOps ==
  [][\A index \in Positions :
       MovesAtBoundary(index) =>
         /\ galleryItems' = galleryItems
         /\ localStorage' = localStorage
         /\ lastEvent' = lastEvent
         /\ eventParity' = eventParity
         /\ SaveError \notin console']_vars

\* One input was handled and nothing shows it: the lists, the storage, the
\* form, the banners and the timers are as the page loaded them (a call of
\* handleMoveUp(0) or of handleMoveDown(last index)).
C11_Witness ==
  /\ steps = 1
  /\ galleryItems = INITIAL_GALLERIES[galleryId]
  /\ localStorage[galleryId] = NoEntry
  /\ lastEvent = NoEntry
  /\ ~eventParity
  /\ newItem = EmptyForm
  /\ uploadError = ""
  /\ errorTimers = 0
  /\ ~isProcessing
  /\ editingItem = NoEntry

\* p and q are the same item but for their featured flag.
SameButFeatured(p, q) ==
  /\ DOMAIN p \cup {"featured"} = DOMAIN q \cup {"featured"}
  /\ \A f \in DOMAIN p \ {"featured"} : p[f] = q[f]

\* C12: ToggleFeatured on an item changes nothing but the featured flag of
\* the item with that identifier: the list keeps its length, every item keeps
\* its position, order and every field other than featured, and an item with
\* another identifier keeps its featured flag too.
C12_ToggleChangesOnlyTheFlag ==
  [][\A item \in Rendered :
       handleToggleFeatured(item) =>
         /\ Len(galleryItems') = Len(galleryItems)
         /\ \A i \in 1..Len(galleryItems) :
              IF galleryItems[i].id = item.id
              THEN SameButFeatured(galleryItems'[i], galleryItems[i])
              ELSE galleryItems'[i] = galleryItems[i]]_vars

\* !!item.featured
IsFeatured(item) == Has(item, "featured") /\ item.featured

\* The list after handleToggleFeatured on row i of `items` and then on the
\* same row of the resulting list.
ToggledTwice(items, i) ==
  LET once == toggleFeatured(items, items[i])
  IN toggleFeatured(once, once[i])

\* C13 as stated: two ToggleFeatured on the same item give back the list as
\* it was, whatever the item's featured flag was, also when it was absent.
C13_DoubleToggleRestoresList ==
  \A i \in 1..Len(galleryItems) : ToggledTwice(galleryItems, i) = galleryItems

\* C13 as the code has it: two ToggleFeatured on the same item give back the
\* item with its featured flag defined and equal to the original flag's truth
\* value (true for true, false for false, false for an absent flag), and every
\* item with another identifier as it was.
C13_DoubleToggleRestoresTruthValue ==
  \A i \in 1..Len(galleryItems) :
    LET twice == ToggledTwice(galleryItems, i)
    IN /\ Len(twice) = Len(galleryItems)
       /\ twice[i] = Put(galleryItems[i], "featured", IsFeatured(galleryItems[i]))
       /\ \A j \in 1..Len(galleryItems) :
            galleryItems[j].id # galleryItems[i].id => twice[j] = galleryItems[j]

\* The first seed item was toggled twice from the row (the dialog was never
\* opened): its flag, absent in the seed, is now false.
C13_Witness ==
  /\ editingItem = NoEntry
  /\ Len(galleryItems) = Len(INITIAL_GALLERIES[galleryId])
  /\ galleryItems[1] = Put(INITIAL_GALLERIES[galleryId][1], "featured", FALSE)

\* `after` is `before` with updatedItem in the place of every item that has
\* updatedItem's identifier, and nothing else changed.
Replaced(before, after, updatedItem) ==
  /\ Len(after) = Len(before)
  /\ \A i \in 1..Len(before) :
       after[i] = IF before[i].id = updatedItem.id THEN updatedItem ELSE before[i]
  /\ (\A i \in 1..Len(before) : before[i].id # updatedItem.id) => after = before

\* The item as saveGalleryItems stores it at 0-based position index.
AsStored(item, index) == IF Has(item, "order") THEN item ELSE Put(item, "order", index)

\* C14: Edit(updatedItem) puts updatedItem in the place of the item with its
\* identifier and leaves every other item, every position and the length as
\* they were; with no such item the list is unchanged. For the dialog's Save
\* this is the editor's list; for updateGalleryItem it is the list read from
\* the store against the list written back (each item as stored).
C14_EditReplacesById ==
  [][/\ handleSave => Replaced(galleryItems, galleryItems', editedItem)
     /\ \A g \in StoreGalleries : \A updatedItem \in UpdateItems :
          (updateGalleryItem(g, updatedItem) /\ SaveError \notin console') =>
            LET before == getGalleryItems(localStorage, g)
                after == Persisted(g)'
            IN /\ Len(after) = Len(before)
               /\ \A i \in 1..Len(before) :
                    after[i] = AsStored(IF before[i].id = updatedItem.id
                                        THEN updatedItem ELSE before[i], i - 1)]_vars

\* The dialog's Save has put a retitled first item in the first place and
\* left the second seed item alone.
C14_Witness ==
  /\ ~isEditDialogOpen
  /\ Len(galleryItems) = 2
  /\ galleryItems[1] = [INITIAL_GALLERIES[galleryId][1] EXCEPT !.title = EditedTitle]
  /\ galleryItems[2] = INITIAL_GALLERIES[galleryId][2]

\* C15: each time the dialog is opened for an item its working copy starts
\* as that item's current value (nothing typed in an earlier session, saved
\* or cancelled, is in it), and while the dialog is open the working copy,
\* which is what Save commits, is a copy of the item it was last opened for.
C15_WorkingCopyIsOpenedItem ==
  [][/\ \A item \in Rendered : handleEditItem(item) => editedItem' = item
     /\ isEditDialogOpen' => editedItem'.id = editingItem'.id]_vars

\* C16: a saveGalleryItems(g, x) that succeeds, followed by getGalleryItems(g),
\* gives the items of x, each with its own order if it had one and its index
\* in x otherwise, nothing else about an item changed, none lost and none
\* added, in ascending order of order.
C16_SaveThenGetRoundTrip ==
  [][\A g \in StoreGalleries : \A x \in SaveLists :
       (callSaveGalleryItems(g, x) /\ SaveError \notin console') =>
         LET got == getGalleryItems(localStorage', g)
         IN /\ Len(got) = Len(x)
            /\ \E p \in Permutations(1..Len(x)) :
                 \A i \in 1..Len(x) : got[p[i]] = AsStored(x[i], i - 1)
            /\ \A i, j \in 1..Len(got) : i < j => got[i].order <= got[j].order]_vars

\* getGalleryItems has returned what was saved as [item 2 with order 1, item 1
\* without order]: both items, the second with its index 1 as order.
C16_Witness ==
  /\ returned = [value |-> << Put(SeedItem(2), "order", 1), Put(SeedItem(1), "order", 1) >>]
  /\ localStorage[galleryId] = JSONstringify(returned.value)

\* A step of one of the functions that write gallery g through saveGalleryItems.
SaveStep(g) ==
  \/ \E items \in SaveLists : callSaveGalleryItems(g, items)
  \/ \E updatedItem \in UpdateItems : updateGalleryItem(g, updatedItem)
  \/ \E itemIds \in ItemIdLists : reorderGalleryItems(g, itemIds)

\* The step's write failed or was not attempted.
NothingSaved == SaveError \in console' \/ ReorderError \in console'

\* In this step every listener registered before it ran exactly once, with g
\* and the list now stored for g; the others did not run.
Invoked(g) ==
  /\ Len(subscriptions') = Len(subscriptions)
  /\ \A k \in 1..Len(subscriptions) :
       IF subscriptions[k].active
       THEN /\ subscriptions'[k].calls = subscriptions[k].calls + 1
            /\ subscriptions'[k].last = [type |-> g, items |-> Persisted(g)']
            /\ subscriptions'[k].active
       ELSE subscriptions'[k] = subscriptions[k]

\* In this step no listener ran.
NotInvoked == subscriptions' = subscriptions

\* C17 as stated: whenever a function of gallery-store writes a gallery's
\* entry (saveGalleryItems, directly or through updateGalleryItem and
\* reorderGalleryItems, and initializeGalleryStore), every callback subscribed
\* at that moment is invoked exactly once, within the call, with the gallery
\* and the list written; a write that failed invokes none.
C17_EveryWriteNotifies ==
  [][/\ \A g \in StoreGalleries :
          SaveStep(g) => IF NothingSaved THEN NotInvoked ELSE Invoked(g)
     /\ \A failAt \in 1..(Len(KeyOrder) + 1) :
          initializeGalleryStore(failAt) =>
            \A g \in GalleryTypes : localStorage'[g] # localStorage[g] => Invoked(g)]_vars

\* C17 as the code has it: the same for every write made through
\* saveGalleryItems; initializeGalleryStore writes its seed entries without
\* invoking any callback.
C17_EverySaveNotifies ==
  [][/\ \A g \in StoreGalleries :
          SaveStep(g) => IF NothingSaved THEN NotInvoked ELSE Invoked(g)
     /\ \A failAt \in 1..(Len(KeyOrder) + 1) :
          initializeGalleryStore(failAt) => NotInvoked]_vars

\* Two listeners are registered and each has run once, with the gallery and
\* the list now stored for it, while initializeGalleryStore has written the
\* seed of another gallery.
C17_Witness ==
  /\ Len(subscriptions) = 2
  /\ localStorage[galleryId] # NoEntry
  /\ Parses(localStorage[galleryId])
  /\ \A k \in 1..2 :
       /\ subscriptions[k].active
       /\ subscriptions[k].calls = 1
       /\ subscriptions[k].last = [type |-> galleryId, items |-> Persisted(galleryId)]
  /\ localStorage["hero"] = JSONstringify(INITIAL_GALLERIES["hero"])

\* C18: calling the function returned by listenToGalleryChanges removes that
\* listener and no other; a removed listener never runs again, whatever is
\* saved later, while every listener still registered runs at each event
\* dispatched; calling the function again changes nothing.
C18_UnsubscribeRemovesOneListener ==
  [][/\ \A k \in 1..Len(subscriptions) :
          /\ unsubscribe(k) =>
               /\ ~subscriptions'[k].active
               /\ Len(subscriptions') = Len(subscriptions)
               /\ \A j \in 1..Len(subscriptions) :
                    j # k => subscriptions'[j] = subscriptions[j]
               /\ ~subscriptions[k].active => subscriptions' = subscriptions
               /\ UNCHANGED << localStorage, lastEvent, eventParity >>
          /\ ~subscriptions[k].active => subscriptions'[k] = subscriptions[k]
          /\ (subscriptions[k].active /\ eventParity' # eventParity) =>
               subscriptions'[k].calls = subscriptions[k].calls + 1]_vars

\* Of two listeners the first was removed after one event and the second
\* has run for that event and for a later one.
C18_Witness ==
  /\ Len(subscriptions) = 2
  /\ ~subscriptions[1].active
  /\ subscriptions[1].calls = 1
  /\ subscriptions[2].active
  /\ subscriptions[2].calls = 2

\* C19: when the write of a saveGalleryItems call fails, the call returns
\* normally (nothing is thrown to the caller), every gallery's stored entry
\* is what it was, no "gallery-updated" event is dispatched and no listener
\* runs.
C19_FailedSaveChangesNothing ==
  [][\A g \in StoreGalleries :
       (SaveStep(g) /\ SaveError \in console') =>
         /\ ~thrown'
         /\ localStorage' = localStorage
         /\ lastEvent' = lastEvent
         /\ eventParity' = eventParity
         /\ subscriptions' = subscriptions]_vars

\* A save was persisted and announced to the listener; the latest call's write
\* failed: it logged, did not throw, and the entry and the listener's count
\* are those of the first save.
C19_Witness ==
  /\ console = {SaveError}
  /\ ~thrown
  /\ lastEvent # NoEntry
  /\ localStorage[galleryId] = JSONstringify(lastEvent.items)
  /\ Len(subscriptions) = 1
  /\ subscriptions[1].calls = 1

\* C20: getGalleryItems(g) returns the seed of g when g has no stored entry
\* and when the stored entry cannot be parsed; in both cases the call returns
\* normally and leaves every stored entry as it was.
C20_GetFallsBackToSeed ==
  [][\A g \in StoreGalleries :
       (callGetGalleryItems(g) /\ localStorage[g] \in {NoEntry, Garbage}) =>
         /\ returned' = [value |-> INITIAL_GALLERIES[g]]
         /\ ~thrown'
         /\ localStorage' = localStorage]_vars

\* getGalleryItems has just met an entry that does not parse: it logged,
\* returned the seed and left the entry in place.
C20_Witness ==
  /\ localStorage[galleryId] = Garbage
  /\ console = {LoadError}
  /\ returned = [value |-> INITIAL_GALLERIES[galleryId]]
  /\ ~thrown

\* What every initializeGalleryStore call does: an existing entry is never
\* overwritten, and an entry that changes is a missing one that gets its seed.
WritesOnlyMissingSeeds ==
  \A g \in GalleryTypes :
    /\ localStorage[g] # NoEntry => localStorage'[g] = localStorage[g]
    /\ localStorage'[g] # localStorage[g] =>
         localStorage'[g] = JSONstringify(INITIAL_GALLERIES[g])

C22_ReorderAllOrNothing ==
  [][\A g \in StoreGalleries : \A itemIds \in ItemIdLists :
       reorderGalleryItems(g, itemIds) =>
         LET before == getGalleryItems(localStorage, g)
         IN /\ ~thrown'
            /\ IF /\ \A k \in 1..Len(itemIds) : itemIds[k] \in IdsOf(before)
                  /\ SaveError \notin console'
               THEN /\ eventParity' # eventParity
                    /\ Len(Persisted(g)') = Len(itemIds)
                    /\ \A k \in 1..Len(itemIds) :
                         /\ Persisted(g)'[k].id = itemIds[k]
                         /\ Persisted(g)'[k].order = k - 1
                         /\ \E i \in 1..Len(before) :
                              SameButOrder(Persisted(g)'[k], before[i])
               ELSE /\ localStorage' = localStorage
                    /\ lastEvent' = lastEvent
                    /\ eventParity' = eventParity
                    /\ subscriptions' = subscriptions]_vars

\* The seed's two items were stored in reverse by a reorder, and the latest
\* call, a reorder naming an unknown identifier, logged and left that entry.
C22_Witness ==
  /\ console = {ReorderError}
  /\ ~thrown
  /\ localStorage[galleryId] =
       JSONstringify(<< Put(SeedItem(2), "order", 0), Put(SeedItem(1), "order", 1) >>)
  /\ lastEvent # NoEntry
  /\ localStorage[galleryId] = JSONstringify(lastEvent.items)

\* C23: the list a successful saveGalleryItems(g, x) stores is x item by
\* item in the sequence passed in: an item with an order keeps exactly that
\* value, 0 included, an item without one has its index in x as order, and
\* nothing else about an item differs.
C23_SaveAssignsMissingOrders ==
  [][\A g \in StoreGalleries : \A x \in SaveLists :
       (callSaveGalleryItems(g, x) /\ SaveError \notin console') =>
         /\ Len(Persisted(g)') = Len(x)
         /\ \A i \in 1..Len(x) :
              /\ Has(Persisted(g)'[i], "order")
              /\ Persisted(g)'[i].order =
                   (IF Has(x[i], "order") THEN x[i].order ELSE i - 1)
              /\ SameButOrder(Persisted(g)'[i], x[i])]_vars

\* The stored list is [item 1 with order 1, item 2 with order 0] as it was
\* passed in: not sorted, and the order 0 at index 1 kept.
C23_Witness ==
  localStorage[galleryId] =
    JSONstringify(<< Put(SeedItem(1), "order", 1), Put(SeedItem(2), "order", 0) >>)

\* The entry of g is the stored empty list.
StoredEmpty(g) == localStorage[g] = JSONstringify(<< >>)

ManagerStepPending == addTask # NoEntry \/ uploadTask # NoEntry

\* C25: the manager's processing flag is set exactly while its Add or its
\* image-upload handler is suspended at an awaited image step, and the
\* dialog's flag exactly while the dialog's image-upload handler is; when the
\* awaited step completes or fails the handler runs to its end and the flag
\* is cleared, so with every awaited step settling at some time, a set flag
\* is always cleared later.
C25_ProcessingEndsWhenStepSettles ==
  /\ [](isProcessing <=> ManagerStepPending)
  /\ [](dialogIsProcessing <=> dialogUploadTask # NoEntry)
  /\ [][/\ (\E converted \in BOOLEAN : AddResume(converted)) => ~isProcessing'
        /\ (\E optimized \in BOOLEAN : UploadResume(optimized)) => ~isProcessing'
        /\ (\E optimized \in BOOLEAN : DialogUploadResume(optimized)) =>
              ~dialogIsProcessing']_vars
  /\ isProcessing ~> ~isProcessing
  /\ dialogIsProcessing ~> ~dialogIsProcessing

\* The dialog's image step has just failed and its flag is cleared, after an
\* image upload of the manager put its object URL into the form and left the
\* manager's flag cleared too.
C25_Witness ==
  /\ UploadError \in console
  /\ dialogUploadError = ProcessingError
  /\ ~dialogIsProcessing
  /\ dialogUploadTask = NoEntry
  /\ ~isProcessing
  /\ uploadTask = NoEntry
  /\ newItem.imageUrl = BlobUrl
====
